---- MODULE Spec2Model ----
(***************************************************************************)
(* Model of web/src/components/ClimateMapApp.tsx: the two file slots and   *)
(* their Dropzone controls, the submit / reset handlers of ClimateMapApp,  *)
(* the asynchronous body of handleProcess and the object URLs it creates   *)
(* and revokes.                                                            *)
(*                                                                         *)
(* A string is a sequence of tokens whose concatenation is the string;     *)
(* the empty string is << >> (falsy in JavaScript), "/" is its own token.  *)
(***************************************************************************)
EXTENDS Naturals, Sequences, FiniteSets

VARIABLES pdf, shp, dragging, isProcessing, resultImage, errorDetails,
          showConfig, backendUrl, calls, urlLog, mounted

vars == <<pdf, shp, dragging, isProcessing, resultImage, errorDetails,
          showConfig, backendUrl, calls, urlLog, mounted>>

\* ---------------------------------------------------------------- bounds
\* Number of object URLs the runs may create.
MaxHandles == 2
\* Largest number of files in one drop payload.
MaxDrop == 2

\* ---------------------------------------------------------------- values
\* null, for a File | null slot and for a string | null state
NoFile == "null"
Null == <<"null">>
\* resultImage === null (object URLs are numbered from 1)
NoImage == 0

Slots == {"pdf", "shp"}
Files == {"a", "b"}
Handles == 1..MaxHandles

\* window.location.origin: an origin never ends with a separator
WindowOrigin == <<"http://o">>
\* values of import.meta.env.PUBLIC_BACKEND_URL and of the settings input
BaseUrls == {<< >>, <<"http://x">>, <<"http://x", "/">>}
\* the fixed path of the template literal
ApiPath == <<"/", "api", "/", "procesar", "/">>

StatusTexts == {<< >>, <<"Internal Server Error">>}
Details == {<< >>, <<"invalid geometry">>}
\* messages of the errors fetch() and response.blob() reject with
TransportMessages == {<<"Failed to fetch">>, <<"NetworkError when attempting to fetch resource.">>}
\* message of the TypeError raised by reading .detail of null
NullDetailMessage == <<"Cannot read properties of null (reading 'detail')">>
DefaultErrorText == <<"Error processing files">>

\* bodies of a non-ok response: unparseable or absent, the JSON value null,
\* a JSON object without detail, a JSON object with a detail string
Bodies == {[kind |-> "malformed", detail |-> << >>],
           [kind |-> "null", detail |-> << >>],
           [kind |-> "nodetail", detail |-> << >>]}
          \cup {[kind |-> "detail", detail |-> d] : d \in Details}
NoBody == [kind |-> "malformed", detail |-> << >>]

DropPayloads == UNION {[1..n -> Files] : n \in 0..MaxDrop}

\* ------------------------------------------------------- pure functions
StripNothing(s) == s

\* baseUrl.replace(/\/$/, "")
StripTrailingSlash(s) ==
    IF Len(s) > 0 /\ s[Len(s)] = "/" THEN SubSeq(s, 1, Len(s) - 1) ELSE s

\* backendUrl || window.location.origin
BaseUrl(url) == IF url # << >> THEN url ELSE WindowOrigin

\* `${baseUrl.replace(/\/$/, "")}/api/procesar/`
Endpoint(url) == StripTrailingSlash(BaseUrl(url)) \o ApiPath

\* await response.json().catch(() => ({ detail: response.statusText }))
ErrJsonNoStatus(body, statusText) ==
    IF body.kind = "malformed" THEN [kind |-> "nodetail", detail |-> << >>]
    ELSE body

ErrJson(body, statusText) ==
    IF body.kind = "malformed" THEN [kind |-> "detail", detail |-> statusText]
    ELSE body

\* the message of the error thrown at `throw new Error(errJson.detail || ...)`
\* (a TypeError when errJson is null)
ThrownMessage(errJson) ==
    IF errJson.kind = "null" THEN NullDetailMessage
    ELSE IF errJson.kind = "detail" /\ errJson.detail # << >> THEN errJson.detail
    ELSE DefaultErrorText

\* `${err.message} (URL: ${endpoint})`
ErrorMessageNoUrl(message, endpoint) == message

ErrorMessage(message, endpoint) ==
    message \o <<" (URL: ">> \o endpoint \o <<")">>

\* ------------------------------------------------------- object URLs
\* urlLog is the sequence of URL.createObjectURL / URL.revokeObjectURL calls
Created == {urlLog[i].h : i \in {j \in DOMAIN urlLog : urlLog[j].op = "create"}}
RevokeCount(h) ==
    Cardinality({i \in DOMAIN urlLog : urlLog[i] = [op |-> "revoke", h |-> h]})
Live == {h \in Created : RevokeCount(h) = 0}
NextHandle == Cardinality(Created) + 1
\* if (resultImage) URL.revokeObjectURL(resultImage)
RevokeIfSet(log, image) ==
    IF image # NoImage THEN Append(log, [op |-> "revoke", h |-> image]) ELSE log

\* ---------------------------------------------------------------- Init
Init ==
    /\ pdf = NoFile
    /\ shp = NoFile
    /\ dragging = [k \in Slots |-> FALSE]
    /\ isProcessing = FALSE
    /\ resultImage = NoImage
    /\ errorDetails = Null
    /\ showConfig = FALSE
    /\ backendUrl \in BaseUrls
    /\ calls = << >>
    /\ urlLog = << >>
    /\ mounted = TRUE

\* ------------------------------------------------------------ Dropzone
\* onFileSelect of the two Dropzone bindings: setPdf(f) / setShp(f)
onFileSelect(k, f) ==
    /\ pdf' = IF k = "pdf" THEN f ELSE pdf
    /\ shp' = IF k = "shp" THEN f ELSE shp

Slot(k) == IF k = "pdf" THEN pdf ELSE shp

\* the hidden input's onChange: e.target.files?.[0] && onFileSelect(...).
\* The handler tests nothing else: the surface's click handler opens the
\* picker only for an empty slot, but the change event is a later event and
\* may find the slot populated (by a drop made meanwhile).
InputChange(k, f) ==
    /\ mounted
    /\ onFileSelect(k, f)
    /\ UNCHANGED <<dragging, isProcessing, resultImage, errorDetails,
                   showConfig, backendUrl, calls, urlLog, mounted>>

handleDrag(k, type) ==
    /\ mounted
    /\ dragging' = [dragging EXCEPT ![k] =
                      IF type \in {"dragenter", "dragover"} THEN TRUE
                      ELSE IF type = "dragleave" THEN FALSE
                      ELSE @]
    /\ UNCHANGED <<pdf, shp, isProcessing, resultImage, errorDetails,
                   showConfig, backendUrl, calls, urlLog, mounted>>

handleDropTakesLast(k, files) ==
    /\ mounted
    /\ dragging' = [dragging EXCEPT ![k] = FALSE]
    /\ IF Len(files) > 0 THEN onFileSelect(k, files[Len(files)])
       ELSE UNCHANGED <<pdf, shp>>
    /\ UNCHANGED <<isProcessing, resultImage, errorDetails,
                   showConfig, backendUrl, calls, urlLog, mounted>>

handleDrop(k, files) ==
    /\ mounted
    /\ dragging' = [dragging EXCEPT ![k] = FALSE]
    /\ IF Len(files) > 0 THEN onFileSelect(k, files[1])
       ELSE UNCHANGED <<pdf, shp, mounted>>
    /\ UNCHANGED <<isProcessing, resultImage, errorDetails,
                   showConfig, backendUrl, calls, urlLog, mounted>>

\* FileCard's remove button, rendered only for a populated slot
onRemove(k) ==
    /\ mounted
    /\ Slot(k) # NoFile
    /\ onFileSelect(k, NoFile)
    /\ UNCHANGED <<dragging, isProcessing, resultImage, errorDetails,
                   showConfig, backendUrl, calls, urlLog, mounted>>

\* ------------------------------------------------------------ settings
ToggleConfig ==
    /\ mounted
    /\ showConfig' = ~showConfig
    /\ UNCHANGED <<pdf, shp, dragging, isProcessing, resultImage,
                   errorDetails, backendUrl, calls, urlLog, mounted>>

\* the settings input exists only while showConfig
setBackendUrl(url) ==
    /\ mounted
    /\ showConfig
    /\ backendUrl' = url
    /\ UNCHANGED <<pdf, shp, dragging, isProcessing, resultImage,
                   errorDetails, showConfig, calls, urlLog, mounted>>

\* -------------------------------------------------------------- submit
\* disabled={!pdf || !shp || isProcessing}
SubmitDisabledNoFlag == pdf = NoFile \/ shp = NoFile

SubmitDisabledNegatedFlag == pdf = NoFile \/ shp = NoFile \/ ~isProcessing

SubmitDisabled == pdf = NoFile \/ shp = NoFile \/ isProcessing

handleProcessKeepsError ==
    /\ ~(pdf = NoFile \/ shp = NoFile)
    /\ isProcessing' = TRUE
    /\ resultImage' = NoImage
    /\ calls' = Append(calls, [pc |-> "fetch",
                               pdf |-> pdf, shp |-> shp,
                               endpoint |-> Endpoint(backendUrl),
                               prev |-> resultImage,
                               statusText |-> << >>, body |-> NoBody])
    /\ UNCHANGED <<pdf, shp, dragging, errorDetails, showConfig, backendUrl,
                   urlLog, mounted>>

handleProcessRevokesEarly ==
    /\ ~(pdf = NoFile \/ shp = NoFile)
    /\ isProcessing' = TRUE
    /\ resultImage' = NoImage
    /\ errorDetails' = Null
    /\ urlLog' = RevokeIfSet(urlLog, resultImage)
    /\ calls' = Append(calls, [pc |-> "fetch",
                               pdf |-> pdf, shp |-> shp,
                               endpoint |-> Endpoint(backendUrl),
                               prev |-> resultImage,
                               statusText |-> << >>, body |-> NoBody])
    /\ UNCHANGED <<pdf, shp, dragging, showConfig, backendUrl, mounted>>

\* handleProcess up to the first await: the invocation keeps the values of
\* the render it was created in (resultImage as prev) and its endpoint
handleProcess ==
    /\ ~(pdf = NoFile \/ shp = NoFile)
    /\ isProcessing' = TRUE
    /\ resultImage' = NoImage
    /\ errorDetails' = Null
    /\ calls' = Append(calls, [pc |-> "fetch",
                               pdf |-> pdf, shp |-> shp,
                               endpoint |-> Endpoint(backendUrl),
                               prev |-> resultImage,
                               statusText |-> << >>, body |-> NoBody])
    /\ UNCHANGED <<pdf, shp, dragging, showConfig, backendUrl, urlLog, mounted>>

\* a click on the submit button
SubmitClick ==
    /\ mounted
    /\ ~SubmitDisabled
    /\ handleProcess

Without(s, i) == SubSeq(s, 1, i - 1) \o SubSeq(s, i + 1, Len(s))

\* fetch() resolves with a response
FetchResolves(i, ok, statusText, body) ==
    /\ i \in DOMAIN calls
    /\ calls[i].pc = "fetch"
    /\ calls' = [calls EXCEPT ![i] =
                   IF ok THEN [@ EXCEPT !.pc = "blob"]
                   ELSE [@ EXCEPT !.pc = "json", !.statusText = statusText,
                                  !.body = body]]
    /\ UNCHANGED <<pdf, shp, dragging, isProcessing, resultImage,
                   errorDetails, showConfig, backendUrl, urlLog, mounted>>

\* catch (err) { setErrorDetails(...) } finally { setIsProcessing(false) }
CatchKeepsFlag(i, message) ==
    /\ errorDetails' = IF mounted THEN ErrorMessage(message, calls[i].endpoint)
                       ELSE errorDetails
    /\ calls' = Without(calls, i)
    /\ UNCHANGED <<pdf, shp, dragging, isProcessing, resultImage, showConfig,
                   backendUrl, urlLog, mounted>>

Catch(i, message) ==
    /\ errorDetails' = IF mounted THEN ErrorMessage(message, calls[i].endpoint)
                       ELSE errorDetails
    /\ isProcessing' = FALSE
    /\ calls' = Without(calls, i)
    /\ UNCHANGED <<pdf, shp, dragging, resultImage, showConfig, backendUrl,
                   urlLog, mounted>>

\* fetch() rejects: transport failure
FetchRejects(i, message) ==
    /\ i \in DOMAIN calls
    /\ calls[i].pc = "fetch"
    /\ Catch(i, message)

\* the non-ok branch: response.json() settles and the error is thrown
JsonSettles(i) ==
    /\ i \in DOMAIN calls
    /\ calls[i].pc = "json"
    /\ Catch(i, ThrownMessage(ErrJson(calls[i].body, calls[i].statusText)))

\* response.blob() rejects
BlobRejects(i, message) ==
    /\ i \in DOMAIN calls
    /\ calls[i].pc = "blob"
    /\ Catch(i, message)

BlobResolvesRevokesFirst(i) ==
    /\ i \in DOMAIN calls
    /\ calls[i].pc = "blob"
    /\ NextHandle <= MaxHandles
    /\ urlLog' = Append(RevokeIfSet(urlLog, calls[i].prev),
                        [op |-> "create", h |-> NextHandle])
    /\ resultImage' = IF mounted THEN NextHandle ELSE resultImage
    /\ isProcessing' = FALSE
    /\ calls' = Without(calls, i)
    /\ UNCHANGED <<pdf, shp, dragging, errorDetails, showConfig, backendUrl, mounted>>

\* response.blob() resolves: createObjectURL, revoke the result of the
\* render the invocation was created in, setResultImage, finally
BlobResolves(i) ==
    /\ i \in DOMAIN calls
    /\ calls[i].pc = "blob"
    /\ NextHandle <= MaxHandles
    /\ urlLog' = RevokeIfSet(Append(urlLog, [op |-> "create", h |-> NextHandle]),
                             calls[i].prev)
    /\ resultImage' = IF mounted THEN NextHandle ELSE resultImage
    /\ isProcessing' = FALSE
    /\ calls' = Without(calls, i)
    /\ UNCHANGED <<pdf, shp, dragging, errorDetails, showConfig, backendUrl, mounted>>

\* --------------------------------------------------------------- reset
handleResetKeepsShp ==
    /\ urlLog' = RevokeIfSet(urlLog, resultImage)
    /\ pdf' = NoFile
    /\ resultImage' = NoImage
    /\ errorDetails' = Null
    /\ UNCHANGED <<shp, dragging, isProcessing, showConfig, backendUrl, calls, mounted>>

handleResetKeepsImage ==
    /\ urlLog' = RevokeIfSet(urlLog, resultImage)
    /\ pdf' = NoFile
    /\ shp' = NoFile
    /\ errorDetails' = Null
    /\ UNCHANGED <<resultImage, dragging, isProcessing, showConfig,
                   backendUrl, calls, mounted>>

handleReset ==
    /\ urlLog' = RevokeIfSet(urlLog, resultImage)
    /\ pdf' = NoFile
    /\ shp' = NoFile
    /\ resultImage' = NoImage
    /\ errorDetails' = Null
    /\ UNCHANGED <<dragging, isProcessing, showConfig, backendUrl, calls, mounted>>

\* the Reiniciar button lives inside the result view ({resultImage && ...})
ResetClick ==
    /\ mounted
    /\ resultImage # NoImage
    /\ handleReset

\* ------------------------------------------------------------- teardown
\* React unmounts ClimateMapApp and its Dropzones: the only effect of the
\* component (the auto-scroll) returns no cleanup, so nothing runs; the
\* component state is discarded (written here as its null values), pending
\* invocations of handleProcess go on and their setState calls do nothing
Unmount ==
    /\ mounted
    /\ mounted' = FALSE
    /\ pdf' = NoFile
    /\ shp' = NoFile
    /\ dragging' = [k \in Slots |-> FALSE]
    /\ isProcessing' = FALSE
    /\ resultImage' = NoImage
    /\ errorDetails' = Null
    /\ showConfig' = FALSE
    /\ backendUrl' = << >>
    /\ UNCHANGED <<calls, urlLog>>

\* ---------------------------------------------------------------- Next
Next ==
    \/ \E k \in Slots, f \in Files : InputChange(k, f)
    \/ \E k \in Slots, t \in {"dragenter", "dragover", "dragleave"} :
          handleDrag(k, t)
    \/ \E k \in Slots, files \in DropPayloads : handleDrop(k, files)
    \/ \E k \in Slots : onRemove(k)
    \/ ToggleConfig
    \/ \E url \in BaseUrls : setBackendUrl(url)
    \/ SubmitClick
    \/ \E i \in DOMAIN calls, ok \in BOOLEAN, st \in StatusTexts, b \in Bodies :
          FetchResolves(i, ok, st, b)
    \/ \E i \in DOMAIN calls, m \in TransportMessages : FetchRejects(i, m)
    \/ \E i \in DOMAIN calls : JsonSettles(i)
    \/ \E i \in DOMAIN calls, m \in TransportMessages : BlobRejects(i, m)
    \/ \E i \in DOMAIN calls : BlobResolves(i)
    \/ ResetClick
    \/ Unmount

Spec == Init /\ [][Next]_vars

\* -------------------------------------------------------------- states
\* SubmissionState, derived from the component state
InFlight == isProcessing
Succeeded == ~isProcessing /\ resultImage # NoImage
Failed == ~isProcessing /\ errorDetails # Null
BothPopulated == pdf # NoFile /\ shp # NoFile

\* t occurs in s as a contiguous run of tokens
Contains(s, t) ==
    \E k \in 0..(Len(s) - Len(t)) : SubSeq(s, k + 1, k + Len(t)) = t

\* an invocation of handleProcess ran to its end in this step
CallCompletes == mounted /\ Len(calls) >= 1 /\ Len(calls') < Len(calls)
\* ... through the catch block (no object URL was created)
CallFails == CallCompletes /\ urlLog' = urlLog

\* C1: while a submission is in flight the submit action is not accepted, so
\* exactly one request is outstanding then and never more than one.
C1_SingleRequestInFlight ==
    /\ Len(calls) <= 1
    /\ isProcessing => (Len(calls) = 1 /\ ~ENABLED SubmitClick)

\* C1 witness: a request is outstanding while both slots are still populated,
\* so a further submit would have been possible but for the in-flight guard.
C1_Witness == isProcessing /\ BothPopulated /\ Len(calls) = 1

\* C2 (as claimed): once no submission is in flight, every object URL that was
\* created and is not the active result reference has been revoked.
C2_NoLeakedHandle ==
    ~isProcessing =>
        \A h \in Created : h = resultImage \/ RevokeCount(h) >= 1

\* C3 (as claimed): between steps at most one object URL is created and not
\* revoked, and after a success it is the active result reference.
C3_AtMostOneLiveHandle ==
    /\ Cardinality(Live) <= 1
    /\ Succeeded => Live = {resultImage}

\* positions of the revokeObjectURL calls made by handleReset: in the handoff
\* of handleProcess the revoke directly follows the creation of another URL
ResetRevokes ==
    {i \in DOMAIN urlLog :
        /\ urlLog[i].op = "revoke"
        /\ ~(i > 1 /\ urlLog[i - 1].op = "create" /\ urlLog[i - 1].h # urlLog[i].h)}

\* C4: no object URL is revoked more than once, a revoked URL was created
\* before, and a URL revoked by a reset is revoked before any later URL is
\* created (run, reset, run: the first is released once, then the second is
\* created).
C4_ReleasedAtMostOnce ==
    /\ \A h \in Created : RevokeCount(h) <= 1
    /\ \A i \in DOMAIN urlLog : urlLog[i].op = "revoke" =>
          \E j \in 1..(i - 1) : urlLog[j] = [op |-> "create", h |-> urlLog[i].h]
    /\ \A i \in ResetRevokes : \A j \in DOMAIN urlLog :
          (urlLog[j].op = "create" /\ urlLog[j].h > urlLog[i].h) => j > i

\* C4 witness: a successful run, a reset, and a second successful run.
C4_Witness ==
    /\ Len(urlLog) = 3
    /\ urlLog[1] = [op |-> "create", h |-> 1]
    /\ urlLog[2] = [op |-> "revoke", h |-> 1]
    /\ urlLog[3] = [op |-> "create", h |-> 2]
    /\ resultImage = 2

\* C5: a reset empties both slots, clears the error message and the result
\* reference, and makes one revoke call, for the handle the reference held.
C5_ResetPostcondition ==
    [][ResetClick =>
          /\ pdf' = NoFile /\ shp' = NoFile
          /\ errorDetails' = Null
          /\ resultImage' = NoImage
          /\ (resultImage # NoImage =>
                urlLog' = Append(urlLog, [op |-> "revoke", h |-> resultImage]))]_vars

\* C5 witness: the state right after a reset that followed a successful run.
C5_Witness ==
    /\ urlLog = <<[op |-> "create", h |-> 1], [op |-> "revoke", h |-> 1]>>
    /\ pdf = NoFile /\ shp = NoFile
    /\ resultImage = NoImage /\ errorDetails = Null

\* C6: the active result reference is absent or an object URL that was
\* created and has not been revoked.
C6_ActiveReferenceIsLive ==
    resultImage = NoImage \/ (resultImage \in Created /\ RevokeCount(resultImage) = 0)

\* C6 witness: a result is displayed after an earlier handle was revoked.
C6_Witness ==
    /\ resultImage # NoImage
    /\ \E h \in Created : h # resultImage /\ RevokeCount(h) = 1

\* C7: with no request in flight, the submit action is accepted exactly when
\* both slots hold a file.
C7_ReadyIffBothPopulated ==
    ~isProcessing => (ENABLED SubmitClick <=> (pdf # NoFile /\ shp # NoFile))

\* C7 witness: both slots populated with nothing in flight after an earlier
\* run failed, and the submit action is accepted.
C7_Witness ==
    /\ ~isProcessing /\ BothPopulated /\ errorDetails # Null
    /\ ENABLED SubmitClick

\* C8: the step in which the remote call completes clears the in-flight flag
\* and ends in Succeeded (a result, no message) when an object URL was made
\* from the response, and in Failed (one message, no result) for a non-ok
\* response or a transport failure; submit is accepted again afterwards while
\* both slots are populated; a request is issued only by a submit click.
C8_CompletionLeavesInFlight ==
    [][/\ CallCompletes =>
             /\ ~isProcessing'
             /\ \/ (urlLog' # urlLog /\ calls[1].pc = "blob"
                       /\ resultImage' # NoImage /\ errorDetails' = Null)
                \/ (urlLog' = urlLog
                       /\ errorDetails' # Null /\ resultImage' = NoImage)
             /\ (pdf' # NoFile /\ shp' # NoFile) => ~SubmitDisabled'
       /\ (mounted /\ Len(calls) >= 1 /\ calls[1].pc = "json" /\ calls' # calls)
             => CallFails
       /\ Len(calls') > Len(calls) => (SubmitClick /\ ~isProcessing)]_vars

\* C8 witness: a failed run has left the in-flight state with both slots
\* still populated, so the user can resubmit.
C8_Witness == Failed /\ BothPopulated /\ calls = << >> /\ urlLog # << >>

\* C9: the message recorded by a failed submission contains the endpoint of
\* that submission's request; for a non-ok response whose body carries a
\* detail it contains the detail, for a transport failure the failure message.
C9_MessageCombinesTextAndEndpoint ==
    [][CallFails =>
          /\ errorDetails' # Null
          /\ Contains(errorDetails', calls[1].endpoint)
          /\ (calls[1].pc = "json" /\ calls[1].body.kind = "detail") =>
                Contains(errorDetails', calls[1].body.detail)
          /\ calls[1].pc \in {"fetch", "blob"} =>
                \E m \in TransportMessages : Contains(errorDetails', m)]_vars

\* C9 witness: a failure message naming an endpoint that is no longer the one
\* the current base URL gives (the base URL was edited during the request).
C9_Witness ==
    /\ Failed
    /\ Contains(errorDetails, <<"invalid geometry">>)
    /\ ~Contains(errorDetails, Endpoint(backendUrl))

\* the failure text of a message: what precedes " (URL: "
FailureText(message) ==
    LET k == CHOOSE i \in DOMAIN message : message[i] = " (URL: "
    IN SubSeq(message, 1, k - 1)

\* a non-ok response has been fully handled in this step
ServiceErrorHandled == CallFails /\ calls[1].pc = "json"

\* C10 (as claimed): the failure text of a non-ok response is the body's
\* detail when the body parses and carries a usable one, and the HTTP status
\* text in every other case.
C10_DetailElseStatusText ==
    [][ServiceErrorHandled =>
          FailureText(errorDetails') =
             IF calls[1].body.kind = "detail" /\ calls[1].body.detail # << >>
             THEN calls[1].body.detail
             ELSE calls[1].statusText]_vars

\* C10 (amended): for every non-ok response the failure text is the detail
\* when the body parses to an object with a non-empty detail, the status text
\* when the body does not parse and the status text is non-empty, the message
\* of the TypeError raised by reading detail of null when the body parses to
\* null, and the fixed default text in every other case (an object without a
\* non-empty detail, or an unparseable body with an empty status text).
C10_DetailStatusTextOrDefault ==
    [][ServiceErrorHandled =>
          FailureText(errorDetails') =
             IF calls[1].body.kind = "detail" /\ calls[1].body.detail # << >>
             THEN calls[1].body.detail
             ELSE IF calls[1].body.kind = "malformed" /\ calls[1].statusText # << >>
             THEN calls[1].statusText
             ELSE IF calls[1].body.kind = "null"
             THEN NullDetailMessage
             ELSE DefaultErrorText]_vars

\* C10 witness: an unparseable body was answered with the status text.
C10_Witness ==
    /\ Failed
    /\ FailureText(errorDetails) = <<"Internal Server Error">>

\* C11 (as claimed): in every Succeeded state and in every Failed state the
\* reset action is enabled.
C11_ResetFromBothOutcomes ==
    (Succeeded \/ Failed) => ENABLED ResetClick

\* the pending invocation was started from a displayed result (a re-run)
ReRunInFlight == Len(calls) >= 1 /\ calls[1].prev # NoImage
\* ... and creates its object URL in this step
ReRunSucceeds == ReRunInFlight /\ CallCompletes /\ urlLog' # urlLog

\* C12 (as claimed): a successful re-run creates the new object URL and then
\* revokes the previous one in the same step, and throughout the re-run some
\* object URL is the visible result reference.
C12_HandoffWithoutGap ==
    [][/\ ReRunInFlight => resultImage # NoImage
       /\ ReRunSucceeds =>
             /\ urlLog' = urlLog \o <<[op |-> "create", h |-> resultImage'],
                                      [op |-> "revoke", h |-> calls[1].prev]>>
             /\ resultImage' \notin Created]_vars

\* C12 (amended): a successful re-run creates the new object URL and then
\* revokes the previous one in the same step; from the submit until that step
\* no object URL is the visible result reference.
C12_HandoffAfterGap ==
    [][/\ ReRunInFlight => resultImage = NoImage
       /\ ReRunSucceeds =>
             /\ urlLog' = urlLog \o <<[op |-> "create", h |-> resultImage'],
                                      [op |-> "revoke", h |-> calls[1].prev]>>
             /\ resultImage' \notin Created]_vars

\* C12 witness: the second run succeeded over the result of the first.
C12_Witness ==
    /\ urlLog = <<[op |-> "create", h |-> 1], [op |-> "create", h |-> 2],
                  [op |-> "revoke", h |-> 1]>>
    /\ resultImage = 2

\* the component is torn down in this step
TornDown == mounted /\ ~mounted'

\* C13 (as claimed): when the component is torn down while it holds a result
\* handle, the teardown revokes that handle.
C13_TeardownReleasesResult ==
    [][(TornDown /\ resultImage # NoImage) =>
          \E i \in DOMAIN urlLog' :
             urlLog'[i] = [op |-> "revoke", h |-> resultImage]]_vars

\* endpoint is base and the fixed path joined by exactly one separator
JoinedOnce(base, endpoint) ==
    /\ endpoint = IF Len(base) > 0 /\ base[Len(base)] = "/"
                  THEN base \o Tail(ApiPath)
                  ELSE base \o ApiPath
    /\ ~Contains(endpoint, <<"/", "/">>)

\* C14: the request of a submit goes to the base URL of that moment joined
\* to /api/procesar/ by a single separator, whether or not the base URL ends
\* with one; the invocation keeps that endpoint until it ends, and a failure
\* message reports it.
C14_EndpointConstruction ==
    [][/\ Len(calls') > Len(calls) =>
             JoinedOnce(BaseUrl(backendUrl), calls'[Len(calls')].endpoint)
       /\ (Len(calls) >= 1 /\ Len(calls') = Len(calls)) =>
             calls'[1].endpoint = calls[1].endpoint
       /\ CallFails =>
             Contains(errorDetails',
                      <<" (URL: ">> \o calls[1].endpoint \o <<")">>)]_vars

\* C14 witness: a failure reports the endpoint built from a base URL that
\* ends with a separator.
C14_Witness ==
    /\ Failed
    /\ backendUrl = <<"http://x", "/">>
    /\ Contains(errorDetails,
                <<" (URL: ", "http://x", "/", "api", "/", "procesar", "/", ")">>)

\* The two Dropzone components on their own: selection, drag, drop, removal.
DropzoneNext ==
    \/ \E k \in Slots, f \in Files : InputChange(k, f)
    \/ \E k \in Slots, t \in {"dragenter", "dragover", "dragleave"} :
          handleDrag(k, t)
    \/ \E k \in Slots, files \in DropPayloads : handleDrop(k, files)
    \/ \E k \in Slots : onRemove(k)

DropzoneSpec == Init /\ [][DropzoneNext]_vars

\* C15: a drop of one or more files on a surface puts the first file of the
\* payload in the bound slot, whatever it held, leaves the other slot as it
\* was and clears the surface's dragging flag.
C15_DropSelectsFirstFile ==
    [][\A k \in Slots, files \in DropPayloads :
          (Len(files) >= 1 /\ handleDrop(k, files)) =>
             /\ (IF k = "pdf" THEN pdf' ELSE shp') = files[1]
             /\ (IF k = "pdf" THEN shp' = shp ELSE pdf' = pdf)
             /\ ~dragging'[k]]_vars

\* C15 witness: both slots hold different files, the document surface's
\* dragging flag is clear and the other surface is being dragged over.
C15_Witness ==
    /\ pdf = "b" /\ shp = "a"
    /\ ~dragging["pdf"] /\ dragging["shp"]

\* C16: the error message and the result reference are never both present,
\* and while a submission is in flight neither is.
C16_ErrorAndResultExclusive ==
    /\ ~(errorDetails # Null /\ resultImage # NoImage)
    /\ isProcessing => (errorDetails = Null /\ resultImage = NoImage)

\* C16 witness: a submission started from a displayed result is in flight.
C16_Witness ==
    /\ isProcessing /\ Len(calls) = 1
    /\ calls[1].prev # NoImage
    /\ resultImage = NoImage
====
